---- MODULE Spec2Model ----
(***************************************************************************)
(* A model of Contsub.py: the fitting strategies FitBSpline and            *)
(* fitMedFilter (prepare / fit), the orchestrator ContSub.fitContinuum,    *)
(* and the clipping strategies pixSigmaClip and chanSigmaClip.             *)
(*                                                                         *)
(* Conventions.                                                            *)
(*  - numpy arrays are functions on 0..n-1 (cubes: on <<k, j, i>>), so the *)
(*    indices are the code's 0-based indices.                              *)
(*  - a float is <<v>> (v an integer) or NaN == <<>>; None is <<>> and a   *)
(*    present optional value m is <<m>>.                                   *)
(*  - arithmetic is exact (rational) where the code uses float64; cube     *)
(*    values are even integers so that the mean of the two middle values   *)
(*    of an even-sized window is an integer.                               *)
(***************************************************************************)
EXTENDS Integers, Sequences, FiniteSets, TLC

VARIABLES
    pc,        \* position of the run: see the actions
    kind,      \* class of self.function: "FitBSpline" | "fitMedFilter"
    velwid,    \* self._velwid (km/s)
    attrs,     \* names of the instance attributes assigned so far
    imax,      \* self._imax (meaningful when "_imax" \in attrs)
    knotind,   \* knotind captured by the _knots closure
    chwid,     \* chwid captured by the _knots closure
    seed,      \* the (randomState, seq) FitBSpline was constructed with
    rng,       \* state of self.rng
    x,         \* self.x, the spectral axis
    cube,      \* self.cube
    mask,      \* self.mask: None or a boolean cube
    cont,      \* local cont of fitContinuum
    line,      \* local line of fitContinuum
    order,     \* the order in which the spatial loop visits the pixels
    nfit,      \* number of completed loop iterations
    cube0,     \* history: self.cube when fitContinuum was called
    calls,     \* history: the calls made on self.function, what they
               \* were given and what they returned, in order
    inds,      \* history: the knot indices the last fit call obtained
    clip,      \* the ClipMethod object under construction / in use
    data,      \* argument of createMask
    cmask,     \* local mask of createMask
    iter       \* history: dilation and erosion passes done by createMask

vars == << pc, kind, velwid, attrs, imax, knotind, chwid, seed, rng, x, cube, mask,
           cont, line, order, nfit, cube0, calls, inds, clip, data, cmask, iter >>

fitVars  == << kind, velwid, attrs, imax, knotind, chwid, seed, rng, x, cube, mask,
               cont, line, order, nfit, cube0, calls, inds >>
clipVars == << clip, data, cmask, iter >>

(***************************************************************************)
(* Bounds of the model.                                                    *)
(***************************************************************************)
NChan    == 24   \* channels of the cubes given to fitContinuum
DimY     == 2    \* spatial rows of those cubes
DimX     == 2    \* spatial columns of those cubes
MaxSeed  == 1    \* seeds of the random stream: 0..MaxSeed
MaxShort == 4    \* short axes: every ordering of 4..MaxShort values
MaxOct   == 6    \* long axes: 8*m channels, m \in 2..MaxOct
MaxWidth == 26   \* widths on long axes: 1000*q km/s, q \in 0..MaxWidth
MaxSmall == 6    \* widths on short axes: 1000*q km/s, q \in 0..MaxSmall

(***************************************************************************)
(* Values.                                                                 *)
(***************************************************************************)
NaN      == << >>
None     == << >>
Num(v)   == << v >>
Some(m)  == << m >>
IsNaN(a) == a = NaN

Abs(a) == IF a < 0 THEN -a ELSE a

Size(a) == Cardinality(DOMAIN a)

\* Python's a // b on numbers (floor), b # 0
FloorDiv(a, b) == IF b > 0 THEN a \div b ELSE (-a) \div (-b)

\* int(a / b): truncation toward zero, b # 0
TruncDiv(a, b) ==
    LET q == FloorDiv(Abs(a), Abs(b))
    IN  IF (a < 0) = (b < 0) THEN q ELSE -q

\* a - b on floats
Sub(a, b) == IF IsNaN(a) \/ IsNaN(b) THEN NaN ELSE Num(a[1] - b[1])

(***************************************************************************)
(* FitFunc.prepare: the monotonicity gate and the local resolution.        *)
(***************************************************************************)
LightSpeed == 300000

\* msort[-2:] of np.argpartition(x, -2): the indices of the second largest
\* and of the largest value (the axes of the model hold distinct values)
Top2(xx) ==
    LET hi == CHOOSE a \in DOMAIN xx : \A b \in DOMAIN xx : xx[b] <= xx[a]
        nx == CHOOSE a \in DOMAIN xx \ {hi} :
                  \A b \in DOMAIN xx \ {hi} : xx[b] <= xx[a]
    IN  << nx, hi >>

\* msort[:2] of np.argpartition(x, -2): numpy leaves the order inside the
\* lower partition undefined, so any two of its entries can come first.
\* Everything computed from the pair is symmetric in it, so a < b.
Low2(xx, top) ==
    LET L == DOMAIN xx \ {top[1], top[2]}
    IN  { p \in L \X L : p[1] < p[2] }

\* a variant that looks at the pair from the front of msort only
AdjacentLow(top, low) == Abs(low[1] - low[2]) = 1

\* the condition of the if: both pairs are neighbours on the axis
Adjacent(top, low) == Abs(top[1] - top[2]) = 1 /\ Abs(low[1] - low[2]) = 1

\* dv = (dvl+dvh)/2 with dvl = |x[a]-x[b]| / mean(x[a],x[b]) * 3e5, that is
\* dv = LightSpeed * DvNum / DvDen
DvNum(xx, top, low) ==
      Abs(xx[top[1]] - xx[top[2]]) * (xx[low[1]] + xx[low[2]])
    + Abs(xx[low[1]] - xx[low[2]]) * (xx[top[1]] + xx[top[2]])

DvDen(xx, top, low) == (xx[top[1]] + xx[top[2]]) * (xx[low[1]] + xx[low[2]])

\* self._velwid // dv; widths are multiples of 1000 km/s, which is divided
\* out of numerator and denominator to stay within TLC's integers
ChansInWidth(vw, xx, top, low) ==
    FloorDiv((vw \div 1000) * DvDen(xx, top, low),
             (LightSpeed \div 1000) * DvNum(xx, top, low))

\* np.linspace(0, n, m, dtype = int)[1:-1]
KnotInd(n, m) ==
    IF m < 3 THEN << >>
    ELSE [ t \in 0..(m - 3) |-> ((t + 1) * n) \div (m - 1) ]

\* (len(x)//self._imax)//8
ChWid(n, m) == FloorDiv(FloorDiv(n, m), 8)

\* FitBSpline.prepare past the gate: what it assigns and how it ends
SplinePrepare(vw, xx, top, low) ==
    LET w == ChansInWidth(vw, xx, top, low)
        n == Size(xx)
        m == TruncDiv(n, w) + 1
    IN  IF w = 0       \* len(x)/0.0 is inf, int(inf) raises
        THEN [ end |-> "raised", attrs |-> {}, imax |-> 0,
               knotind |-> << >>, chwid |-> 0 ]
        ELSE IF m <= 0 \* linspace refuses m < 0, len(x)//0 raises
        THEN [ end |-> "raised", attrs |-> {"_imax"}, imax |-> m,
               knotind |-> << >>, chwid |-> 0 ]
        ELSE [ end |-> "loop", attrs |-> {"_imax", "_knots"}, imax |-> m,
               knotind |-> KnotInd(n, m), chwid |-> ChWid(n, m) ]

\* a variant without the increment
RawWindow(w) == w

\* the window of fitMedFilter: if self._imax % 2 == 0: self._imax += 1
OddWindow(w) == IF w % 2 = 0 THEN w + 1 ELSE w

\* fitMedFilter.prepare past the gate
MedPrepare(vw, xx, top, low) ==
    [ end |-> "loop", attrs |-> {"_imax"},
      imax |-> OddWindow(ChansInWidth(vw, xx, top, low)),
      knotind |-> << >>, chwid |-> 0 ]

\* prepare(x) when msort[:2] is low: sys.exit(1) when the gate fails
PrepareResult(kd, vw, xx, top, low) ==
    IF ~Adjacent(top, low)
    THEN [ end |-> "exit", attrs |-> {}, imax |-> 0,
           knotind |-> << >>, chwid |-> 0 ]
    ELSE IF kd = "FitBSpline" THEN SplinePrepare(vw, xx, top, low)
    ELSE MedPrepare(vw, xx, top, low)

\* the ways prepare(x) can end, over the pairs numpy may put first: the
\* pairs that are not neighbours all end in the same exit
PrepareOutcomes(kd, vw, xx) ==
    LET top  == Top2(xx)
        low2 == Low2(xx, top)
        near == { p \in low2 : p[2] - p[1] = 1 }
        far  == { p \in low2 : p[2] - p[1] # 1 }
    IN  { PrepareResult(kd, vw, xx, top, low) : low \in near }
        \cup { PrepareResult(kd, vw, xx, top, low) :
                 low \in IF far = {} THEN {} ELSE { CHOOSE p \in far : TRUE } }

(***************************************************************************)
(* The random stream of FitBSpline.  numpy's generator is stood for by a   *)
(* small congruential generator: a deterministic function of the seed and  *)
(* of the number of draws made so far.                                     *)
(***************************************************************************)
RngStep(s) == (5 * s + 3) % 17

RECURSIVE DrawInts(_, _, _, _)
\* rng.integers(low, high, size = n), low < high: the values drawn, the
\* generator afterwards
DrawInts(s, low, high, n) ==
    IF n = 0 THEN [ vals |-> << >>, rng |-> s ]
    ELSE LET rest == DrawInts(s, low, high, n - 1)
             s2   == RngStep(rest.rng)
         IN  [ vals |-> [ t \in 0..(n - 1) |->
                            IF t < n - 1 THEN rest.vals[t]
                            ELSE low + (s2 % (high - low)) ],
               rng  |-> s2 ]

\* a variant whose draws leave the generator where it was
KnotsSameDraw(s, kn, cw) ==
    IF Size(kn) = 0 THEN [ ok |-> TRUE, inds |-> << >>, rng |-> s ]
    ELSE IF -cw >= cw THEN [ ok |-> FALSE, inds |-> << >>, rng |-> s ]
    ELSE [ ok |-> TRUE,
           inds |-> [ t \in DOMAIN kn |->
                        DrawInts(s, -cw, cw, Size(kn)).vals[t] + kn[t] ],
           rng |-> s ]

\* self._knots(): rng.integers(-chwid, chwid, size = knotind.shape)+knotind.
\* An empty size returns an empty array; otherwise low >= high raises.
Knots(s, kn, cw) ==
    IF Size(kn) = 0 THEN [ ok |-> TRUE, inds |-> << >>, rng |-> s ]
    ELSE IF -cw >= cw THEN [ ok |-> FALSE, inds |-> << >>, rng |-> s ]
    ELSE LET d == DrawInts(s, -cw, cw, Size(kn))
         IN  [ ok |-> TRUE,
               inds |-> [ t \in DOMAIN kn |-> d.vals[t] + kn[t] ],
               rng |-> d.rng ]

(***************************************************************************)
(* FitBSpline.fit.  splrep / splev are scipy's: the model stands for the   *)
(* weighted least-squares spline through the given knots by the one of     *)
(* degree 0 (on each span between knots, the weighted mean of the data,    *)
(* rounded down), a deterministic function of axis, data, weights and      *)
(* knots.  scipy's own input errors are not modelled.                      *)
(***************************************************************************)
RECURSIVE SumTo(_, _)
\* f[0] + ... + f[n-1]
SumTo(f, n) == IF n = 0 THEN 0 ELSE f[n - 1] + SumTo(f, n - 1)

\* x[inds]: an index below 0 counts from the end
TakeAt(xx, ii) ==
    [ t \in DOMAIN ii |-> IF ii[t] < 0 THEN xx[ii[t] + Size(xx)] ELSE xx[ii[t]] ]

\* the span of the knot vector t that holds the axis value v
Span(t, v) == Cardinality({ s \in DOMAIN t : t[s] <= v })

\* the value of the fitted spline on each span, from the span of every
\* channel, the weights and the data
SpanMeans(sp, wt, dat, spans) ==
    [ s \in 0..spans |->
        LET w == SumTo([ k \in DOMAIN sp |-> IF sp[k] = s THEN wt[k] ELSE 0 ],
                       Size(sp))
            d == SumTo([ k \in DOMAIN sp |->
                           IF sp[k] = s THEN wt[k] * dat[k][1] ELSE 0 ],
                       Size(sp))
        IN  IF w = 0 THEN NaN ELSE Num(FloorDiv(d, w)) ]

SplineAt(sp, means) == [ k \in DOMAIN sp |-> means[sp[k]] ]

\* splev(x, splrep(x, data, task = -1, w = mask, t = t, k = order))
SplineEval(xx, dat, msk, t) ==
    SplineAt([ k \in DOMAIN xx |-> Span(t, xx[k]) ],
             SpanMeans([ k \in DOMAIN xx |-> Span(t, xx[k]) ],
                       [ k \in DOMAIN xx |->
                           IF msk = None THEN 1 ELSE IF msk[1][k] THEN 1 ELSE 0 ],
                       dat, Size(t)))

\* the two values returned: spl, data-spl
SplineReturn(dat, spl, k) ==
    [ ok |-> TRUE, cont |-> spl,
      resid |-> [ c \in DOMAIN dat |-> Sub(dat[c], spl[c]) ],
      inds |-> k.inds, rng |-> k.rng, data |-> dat ]

\* fit once self._knots() has returned k
SplineFitAt(xx, dat, msk, k) ==
    IF ~k.ok \/ \E t \in DOMAIN k.inds :
                   k.inds[t] >= Size(xx) \/ k.inds[t] < -Size(xx)
    THEN [ ok |-> FALSE, cont |-> << >>, resid |-> << >>,
           inds |-> k.inds, rng |-> k.rng, data |-> dat ]
    ELSE SplineReturn(dat, SplineEval(xx, dat, msk, TakeAt(xx, k.inds)), k)

\* FitBSpline.fit(x, data, mask, weight): how it ends, what it returns, the
\* knot indices it used, the generator and the caller's data afterwards
SplineFit(xx, dat, msk, s, kn, cw) == SplineFitAt(xx, dat, msk, Knots(s, kn, cw))

(***************************************************************************)
(* fitMedFilter.fit.                                                       *)
(***************************************************************************)
\* np.nanmedian of one window (a sequence): the middle of the sorted
\* entries that are not NaN, or the mean of the two middle ones
NanMedian(win) ==
    LET vals == SortSeq(SelectSeq(win, LAMBDA e : ~IsNaN(e)),
                        LAMBDA a, b : a[1] < b[1])
        m    == Len(vals)
    IN  IF m = 0 THEN NaN
        ELSE IF m % 2 = 1 THEN vals[m \div 2 + 1]
        ELSE Num((vals[m \div 2][1] + vals[m \div 2 + 1][1]) \div 2)

\* np.hstack((np.full(h, nan), data, np.full(h, nan))), h >= 0
Padded(dat, h) ==
    [ t \in 0..(Size(dat) + 2 * h - 1) |->
        IF t < h \/ t >= h + Size(dat) THEN NaN ELSE dat[t - h] ]

\* np.nanmedian(sliding_window_view(nandata, w), axis = 1), 1 <= w <= len
MovingMedian(nandata, w) ==
    [ t \in 0..(Size(nandata) - w) |->
        NanMedian([ u \in 1..w |-> nandata[t + u - 1] ]) ]

\* data[np.logical_not(mask)] = np.nan
Blanked(dat, msk) ==
    IF msk = None THEN dat
    ELSE [ k \in DOMAIN dat |-> IF msk[1][k] THEN dat[k] ELSE NaN ]

\* a variant that subtracts from the blanked data instead of the copy
MedResidualOfBlanked(cp, dat, res) == [ k \in DOMAIN cp |-> Sub(dat[k], res[k]) ]

\* the second value returned: cp_data - resMed
MedResidual(cp, dat, res) == [ k \in DOMAIN cp |-> Sub(cp[k], res[k]) ]

\* fit once the data are blanked (d2) and the moving median is taken
MedReturn(cp, d2, res) ==
    IF Size(res) # Size(cp)
    THEN [ ok |-> FALSE, cont |-> res, resid |-> << >>,
           inds |-> << >>, data |-> d2 ]
    ELSE [ ok |-> TRUE, cont |-> res, resid |-> MedResidual(cp, d2, res),
           inds |-> << >>, data |-> d2 ]

\* fitMedFilter.fit(x, data, mask, weight).  np.full refuses a negative
\* length, sliding_window_view a window below 1, and the subtraction arrays
\* of different lengths.
MedFit(dat, msk, w) ==
    IF FloorDiv(w, 2) < 0 \/ w < 1
    THEN [ ok |-> FALSE, cont |-> << >>, resid |-> << >>,
           inds |-> << >>, data |-> Blanked(dat, msk) ]
    ELSE MedReturn(dat, Blanked(dat, msk),
                   MovingMedian(Padded(Blanked(dat, msk), FloorDiv(w, 2)), w))

\* self.function.fit(self.x, data, mask = ..., weight = None)
Fit(kd, xx, dat, msk, s, w, kn, cw) ==
    IF kd = "FitBSpline" THEN SplineFit(xx, dat, msk, s, kn, cw)
    ELSE MedFit(dat, msk, w) @@ [ rng |-> s ]

(***************************************************************************)
(* ContSub.fitContinuum.                                                   *)
(***************************************************************************)
\* cube.shape
Shape(c) ==
    << Cardinality({ d[1] : d \in DOMAIN c }),
       Cardinality({ d[2] : d \in DOMAIN c }),
       Cardinality({ d[3] : d \in DOMAIN c }) >>

\* np.zeros(self.cube.shape)
Zeros(c) == [ d \in DOMAIN c |-> Num(0) ]

\* self.cube[:,j,i]
TraceOf(c, j, i) == [ k \in 0..(Shape(c)[1] - 1) |-> c[<< k, j, i >>] ]

\* the mask argument of fit: None, or self.mask[:,j,i]
MaskArg(m, j, i) == IF m = None THEN None ELSE Some(TraceOf(m[1], j, i))

\* c[:,j,i] = t
WriteTrace(c, j, i, t) ==
    [ d \in DOMAIN c |-> IF d[2] = j /\ d[3] = i THEN t[d[1]] ELSE c[d] ]

\* for i in range(dimx): for j in range(dimy): the n-th pixel << j, i >>
CodeOrder(dimy, dimx) ==
    [ n \in 0..(dimy * dimx - 1) |-> << n % dimy, n \div dimy >> ]

\* other ways to go through the same pixels: row by row, and backwards
RowOrder(dimy, dimx) ==
    [ n \in 0..(dimy * dimx - 1) |-> << n \div dimx, n % dimx >> ]

BackOrder(dimy, dimx) ==
    [ n \in 0..(dimy * dimx - 1) |->
        CodeOrder(dimy, dimx)[dimy * dimx - 1 - n] ]

\* a variant that exchanges row and column
SlotSwapped(j, i) == << i, j >>

\* the slot of the two output cubes that receives the result for << j, i >>
Slot(j, i) == << j, i >>

\* lines 183-186: the output cubes are made, then self.function.prepare(x)
Prepare ==
    /\ pc = "start"
    /\ \E r \in PrepareOutcomes(kind, velwid, x) :
         /\ pc' = r.end
         /\ attrs' = r.attrs
         /\ imax' = r.imax
         /\ knotind' = r.knotind
         /\ chwid' = r.chwid
    /\ cont' = Zeros(cube)
    /\ line' = Zeros(cube)
    /\ calls' = Append(calls, [ op |-> "prepare", pix |-> << >>,
                                data |-> << >>, mask |-> None, ret |-> << >> ])
    /\ UNCHANGED << kind, velwid, seed, rng, x, cube, mask, order, nfit,
                    cube0, inds >>
    /\ UNCHANGED clipVars

\* lines 188-195: one iteration of the loop over the pixels.  The data
\* argument is a view of self.cube, so what fit writes into it lands there.
FitPixel ==
    /\ pc = "loop"
    /\ nfit < Size(order)
    /\ \E j \in { order[nfit][1] }, i \in { order[nfit][2] } :
       \E dat \in { TraceOf(cube, j, i) }, msk \in { MaskArg(mask, j, i) } :
       \E r \in { Fit(kind, x, dat, msk, rng, imax, knotind, chwid) },
          to \in { Slot(j, i) } :
           /\ calls' = Append(calls, [ op |-> "fit", pix |-> << j, i >>,
                                       data |-> dat, mask |-> msk,
                                       ret |-> << r.cont, r.resid >> ])
           /\ cube' = WriteTrace(cube, j, i, r.data)
           /\ rng' = r.rng
           /\ inds' = r.inds
           /\ IF r.ok
              THEN /\ cont' = WriteTrace(cont, to[1], to[2], r.cont)
                   /\ line' = WriteTrace(line, to[1], to[2], r.resid)
                   /\ nfit' = nfit + 1
                   /\ pc' = "loop"
              ELSE /\ pc' = "raised"
                   /\ UNCHANGED << cont, line, nfit >>
    /\ UNCHANGED << kind, velwid, attrs, imax, knotind, chwid, seed, x, mask,
                    order, cube0 >>
    /\ UNCHANGED clipVars

\* line 199: return cont, line
Return ==
    /\ pc = "loop"
    /\ nfit = Size(order)
    /\ pc' = "done"
    /\ UNCHANGED fitVars
    /\ UNCHANGED clipVars

(***************************************************************************)
(* The inputs of the runs.                                                 *)
(***************************************************************************)
\* an axis of n channels rising by one unit per channel
LinearAxis(n) == [ k \in 0..(n - 1) |-> 300 + k ]

\* the same with the last value exchanged with the middle one
BentAxis(n) ==
    [ k \in 0..(n - 1) |->
        IF k = n - 1 THEN 300 + n \div 2
        ELSE IF k = n \div 2 THEN 300 + n - 1 ELSE 300 + k ]

\* every ordering of n distinct values
Orderings(n) ==
    { f \in [ 0..(n - 1) -> 1..n ] :
        \A a, b \in 0..(n - 1) : a # b => f[a] # f[b] }

ShortAxes ==
    UNION { { [ k \in 0..(n - 1) |-> 300 + f[k] ] : f \in Orderings(n) } :
            n \in 4..MaxShort }

LongAxes == { LinearAxis(8 * m) : m \in 2..MaxOct }

\* the axes with all values negated as well
Signed(A) == A \cup { [ k \in DOMAIN a |-> -a[k] ] : a \in A }

CubeOf(n, dy, dx, s) ==
    [ d \in (0..(n - 1)) \X (0..(dy - 1)) \X (0..(dx - 1)) |->
        Num(2 * ((d[1] * (d[2] + 2) + 5 * d[3] + s * d[1] * d[1]) % 7)) ]

\* m = 0: all True; m = 1: all False; else False where k+j+2i divides by m
MaskOf(n, dy, dx, m) ==
    [ d \in (0..(n - 1)) \X (0..(dy - 1)) \X (0..(dx - 1)) |->
        m = 0 \/ (d[1] + d[2] + 2 * d[3]) % m # 0 ]

NoClip == [ cls |-> "none", n |-> 0, dilate |-> 0, method |-> "rms",
            attrs |-> {}, fn |-> "unset" ]

InitIdleClip ==
    /\ clip = NoClip
    /\ data = << >>
    /\ cmask = << >>
    /\ iter = << 0, 0 >>

\* the state when fitContinuum is called
InitRun(kinds, widths, axes, dy, dx, masks, shifts) ==
    /\ pc = "start"
    /\ kind \in kinds
    /\ velwid \in widths
    /\ attrs = {}
    /\ imax = 0
    /\ knotind = << >>
    /\ chwid = 0
    /\ seed \in IF kind = "FitBSpline" THEN 0..MaxSeed ELSE {0}
    /\ rng = seed
    /\ x \in axes
    /\ cube \in { CubeOf(Size(x), dy, dx, s) : s \in shifts }
    /\ mask \in { None } \cup { Some(MaskOf(Size(x), dy, dx, m)) : m \in masks }
    /\ cont = << >>
    /\ line = << >>
    /\ nfit = 0
    /\ cube0 = cube
    /\ calls = << >>
    /\ inds = << >>
    /\ InitIdleClip

Kinds == { "FitBSpline", "fitMedFilter" }

\* runs of fitContinuum on DimY x DimX pixels of NChan channels
Init ==
    /\ InitRun(Kinds, { 3000, 10000 }, { LinearAxis(NChan), BentAxis(NChan) },
               DimY, DimX, 0..3, 0..1)
    /\ order = CodeOrder(DimY, DimX)

Next == Prepare \/ FitPixel \/ Return

Spec == Init /\ [][Next]_vars

\* the same runs with the pixels visited in other orders too
InitAnyOrder ==
    /\ InitRun(Kinds, { 3000, 10000 }, { LinearAxis(NChan) },
               DimY, DimX, 0..3, 0..1)
    /\ order \in { CodeOrder(DimY, DimX), RowOrder(DimY, DimX),
                   BackOrder(DimY, DimX) }

SpecAnyOrder == InitAnyOrder /\ [][Next]_vars

\* runs on one pixel over many axes and widths
InitAxes ==
    /\ \/ InitRun(Kinds, { 1000 * q : q \in 0..MaxSmall },
                  Signed(ShortAxes), 1, 1, {}, {0})
       \/ InitRun(Kinds, { 1000 * q : q \in 0..MaxWidth },
                  LongAxes, 1, 1, {}, {0})
    /\ order = CodeOrder(1, 1)

SpecAxes == InitAxes /\ [][Next]_vars

(***************************************************************************)
(* pixSigmaClip and chanSigmaClip.  Cubes given to createMask hold plain   *)
(* integers; |v| < n*sqrt(mean(v*v)) is decided exactly, on the squares.   *)
(***************************************************************************)
Side == 5        \* bound: the cubes given to pixSigmaClip are Side^3
MaxDilate == 1   \* bound: dilation \in 0..MaxDilate

\* the names a method body can resolve: its parameters, and what the module
\* defines or imports (lines 1-51 and the classes)
InitParams == { "self", "n", "sm_kernel", "dilation", "method" }

ModuleNames ==
    { "np", "pd", "datetime", "os", "fits", "multiprocessing", "Pool",
      "repeat", "optimize", "stats", "splev", "splrep", "convolve",
      "ndimage", "sys", "logging", "ABC", "abstractmethod", "log", "ch",
      "formatter", "alreadyOpen", "alreadyClosed", "noBeamTable",
      "tableExists", "tableDimMismatch", "CubeDimIsSmall", "FitFunc",
      "FitBSpline", "fitMedFilter", "ContSub", "Mask", "ClipMethod",
      "pixSigmaClip", "chanSigmaClip" }

Resolves(name) == name \in InitParams \cup ModuleNames

\* the name the elif would hold if it were spelled like the parameter
ElifNameSpelled == "method"

\* the name the elif of __init__ compares with 'mad'
ElifName == "methos"

\* __init__: the attributes assigned before the method is looked at
EarlyAttrs(cls) == IF cls = "pixSigmaClip" THEN { "n", "dilate", "sm" } ELSE { "n" }

\* __init__ of both classes: how it ends, and the object's attributes
Construct(c) ==
    IF c.method = "rms"
    THEN [ end |-> "built", attrs |-> EarlyAttrs(c.cls) \cup { "function" },
           fn |-> "rms" ]
    ELSE IF ~Resolves(ElifName)
    THEN [ end |-> "nameerror", attrs |-> EarlyAttrs(c.cls), fn |-> "unset" ]
    ELSE IF c.method = "mad"
    THEN [ end |-> "built", attrs |-> EarlyAttrs(c.cls) \cup { "function" },
           fn |-> "mad" ]
    ELSE [ end |-> "built", attrs |-> EarlyAttrs(c.cls), fn |-> "unset" ]

\* sum of the squares of d over the cells of D
RECURSIVE SumSq(_, _)
SumSq(d, D) ==
    IF D = {} THEN 0
    ELSE LET e == CHOOSE e \in D : TRUE
         IN  d[e] * d[e] + SumSq(d, D \ { e })

\* a variant that takes the rms along the spectral axis in both classes
RmsCellsOfTrace(cls, d, c) == { e \in DOMAIN d : e[2] = c[2] /\ e[3] = c[3] }

\* the cells over which the rms that applies to cell c is taken:
\* pixSigmaClip.__rms has axis = (0), chanSigmaClip.__rms has axis = (1,2)
RmsCells(cls, d, c) ==
    IF cls = "pixSigmaClip"
    THEN { e \in DOMAIN d : e[2] = c[2] /\ e[3] = c[3] }
    ELSE { e \in DOMAIN d : e[1] = c[1] }

\* np.abs(v) < n*sigma with sigma = sqrt(sq / cells), n >= 0
Below(v, n, sq, cells) == v * v * cells < n * n * sq

\* mask = np.abs(sm_data) < self.n*sigma, with no smoothing kernel
ThresholdMask(cls, n, d) ==
    [ c \in DOMAIN d |->
        Below(d[c], n, SumSq(d, RmsCells(cls, d, c)),
              Cardinality(RmsCells(cls, d, c))) ]

\* ndimage.generate_binary_structure(3, connectivity)
Structure(connectivity) ==
    { s \in (-1..1) \X (-1..1) \X (-1..1) :
        Abs(s[1]) + Abs(s[2]) + Abs(s[3]) <= connectivity }

Shift(c, s) == << c[1] + s[1], c[2] + s[2], c[3] + s[3] >>

\* the value seen at cell c: outside the array, border_value = 1
At(m, c) == IF c \in DOMAIN m THEN m[c] ELSE TRUE

\* ndimage.binary_erosion(mask, structure = struct_erd, border_value = 1)
ErodeWith(m, st) == [ c \in DOMAIN m |-> \A s \in st : At(m, Shift(c, s)) ]

Erosion(m) == ErodeWith(m, Structure(2))

\* ndimage.binary_dilation(mask, structure = struct_dil, border_value = 1)
DilateWith(m, st) == [ c \in DOMAIN m |-> \E s \in st : At(m, Shift(c, s)) ]

Dilation(m) == DilateWith(m, Structure(1))

\* a variant with one pass fewer
ErodePassesShort(dil) == dil + 1

\* number of erosion passes: range(self.dilate+2)
ErodePasses(dil) == dil + 2

\* cls(n, ...) is evaluated
New ==
    /\ pc = "new"
    /\ \E r \in { Construct(clip) } :
         /\ pc' = r.end
         /\ clip' = [ clip EXCEPT !.attrs = r.attrs, !.fn = r.fn ]
    /\ UNCHANGED << data, cmask, iter >>
    /\ UNCHANGED fitVars

\* createMask, lines 260-265 (pixSigmaClip) or 309-310 (chanSigmaClip,
\* which returns at once); self.function unassigned is an AttributeError
Threshold ==
    /\ pc = "built"
    /\ IF "function" \notin clip.attrs
       THEN pc' = "attributeerror" /\ UNCHANGED cmask
       ELSE /\ cmask' = ThresholdMask(clip.cls, clip.n, data)
            /\ pc' = IF clip.cls = "pixSigmaClip" THEN "dilate" ELSE "masked"
    /\ UNCHANGED << clip, data, iter >>
    /\ UNCHANGED fitVars

\* one pass of the loop of line 267
Dilate ==
    /\ pc = "dilate"
    /\ iter[1] < clip.dilate
    /\ cmask' = Dilation(cmask)
    /\ iter' = << iter[1] + 1, iter[2] >>
    /\ UNCHANGED << pc, clip, data >>
    /\ UNCHANGED fitVars

\* one pass of the loop of line 270
Erode ==
    /\ pc = "dilate"
    /\ iter[1] = clip.dilate
    /\ iter[2] < ErodePasses(clip.dilate)
    /\ cmask' = Erosion(cmask)
    /\ iter' = << iter[1], iter[2] + 1 >>
    /\ UNCHANGED << pc, clip, data >>
    /\ UNCHANGED fitVars

\* line 273: return mask
ReturnMask ==
    /\ pc = "dilate"
    /\ iter[1] = clip.dilate
    /\ iter[2] = ErodePasses(clip.dilate)
    /\ pc' = "masked"
    /\ UNCHANGED clipVars
    /\ UNCHANGED fitVars

\* a cube whose threshold mask at n = 1 is True exactly on the block of
\* side b at offset o: 0 in the block, 1 above and below it along the
\* spectral axis, 0 in the traces the block does not meet
InBlock(c, o, b) == \A a \in 1..3 : o[a] <= c[a] /\ c[a] < o[a] + b

BlockMask(o, b) == [ c \in (0..(Side - 1)) \X (0..(Side - 1)) \X (0..(Side - 1)) |->
                       InBlock(c, o, b) ]

BlockData(o, b) ==
    [ c \in (0..(Side - 1)) \X (0..(Side - 1)) \X (0..(Side - 1)) |->
        IF InBlock(c, o, b) THEN 0
        ELSE IF InBlock(<< o[1], c[2], c[3] >>, o, b) THEN 1 ELSE 0 ]

\* the offsets at which a block of side b fits in the cube
Offsets(b) == (0..(Side - b)) \X (0..(Side - b)) \X (0..(Side - b))

BlockCubes == UNION { { BlockData(o, b) : o \in Offsets(b) } : b \in { 1, 3 } }

\* cubes of shape (5, 4, 4): the first m pixels of a channel hold +-a and
\* the others +-b, turned by one pixel per channel; channel 2 holds ten
\* times that, so that its spread is ten times that of the others
ChannelData(m, a, b) ==
    [ c \in (0..4) \X (0..3) \X (0..3) |->
        LET t == (4 * c[2] + c[3] + c[1]) % 16
            v == IF t < m THEN a ELSE b
            u == IF t % 2 = 0 THEN v ELSE -v
        IN  IF c[1] = 2 THEN 10 * u ELSE u ]

ChannelCubes ==
    { ChannelData(m, a, b) : m \in 0..16, a \in 0..2, b \in { 1, 3, 7, 20 } }

InitIdleFit ==
    /\ kind = "none"
    /\ velwid = 0
    /\ attrs = {}
    /\ imax = 0
    /\ knotind = << >>
    /\ chwid = 0
    /\ seed = 0
    /\ rng = 0
    /\ x = << >>
    /\ cube = << >>
    /\ mask = None
    /\ cont = << >>
    /\ line = << >>
    /\ order = << >>
    /\ nfit = 0
    /\ cube0 = << >>
    /\ calls = << >>
    /\ inds = << >>

Methods == { "rms", "mad", "median" }

\* the state when a ClipMethod is about to be constructed; what is masked
\* later is the cube data
InitClip ==
    /\ pc = "new"
    /\ \/ /\ clip \in [ cls : { "pixSigmaClip" }, n : { 1 },
                        dilate : 0..MaxDilate, method : Methods,
                        attrs : { {} }, fn : { "unset" } ]
          /\ data \in BlockCubes
       \/ /\ clip \in [ cls : { "chanSigmaClip" }, n : { 1, 3 },
                        dilate : { 0 }, method : Methods,
                        attrs : { {} }, fn : { "unset" } ]
          /\ data \in ChannelCubes
    /\ cmask = << >>
    /\ iter = << 0, 0 >>
    /\ InitIdleFit

NextClip == New \/ Threshold \/ Dilate \/ Erode \/ ReturnMask

SpecClip == InitClip /\ [][NextClip]_vars

(***************************************************************************)
(* The claims.                                                             *)
(***************************************************************************)
FitCalls == { n \in DOMAIN calls : calls[n].op = "fit" }

\* C1: when fitContinuum has returned, line[k,j,i] is the value cube[k,j,i]
\* had when it was called minus cont[k,j,i], for every element, strategy
\* and mask.
C1_ResidualIdentity ==
    pc = "done" => \A d \in DOMAIN cube0 : line[d] = Sub(cube0[d], cont[d])

\* a run of fitMedFilter that returned, with a masked channel whose
\* continuum and line are numbers
C1_Witness ==
    /\ pc = "done"
    /\ kind = "fitMedFilter"
    /\ mask # None
    /\ \E d \in DOMAIN cube0 :
         ~mask[1][d] /\ ~IsNaN(cont[d]) /\ line[d] = Sub(cube0[d], cont[d])

\* C2: when fitContinuum has returned, every element of self.cube (and of
\* the mask, which no action writes) has the value it had at the call.
C2_CubeUnchanged == pc = "done" => cube = cube0

\* C9: prepare is the first call and the only prepare; every fit call comes
\* after it has completed, is given the trace and the mask trace of its own
\* pixel, and its result is in that pixel's slot of cont and line; when the
\* run has returned every pixel has had exactly one fit call; when prepare
\* has aborted there is no fit call.
C9_Protocol ==
    /\ pc # "start" => Len(calls) >= 1 /\ calls[1].op = "prepare"
    /\ \A n \in DOMAIN calls : n > 1 => calls[n].op = "fit"
    /\ FitCalls # {} => "_imax" \in attrs
    /\ \A n \in FitCalls :
         LET j == calls[n].pix[1]
             i == calls[n].pix[2]
         IN  /\ calls[n].data = TraceOf(cube0, j, i)
             /\ calls[n].mask = MaskArg(mask, j, i)
             /\ \A m \in FitCalls : calls[m].pix = calls[n].pix => m = n
             /\ pc \in { "loop", "done" } =>
                  /\ TraceOf(cont, j, i) = calls[n].ret[1]
                  /\ TraceOf(line, j, i) = calls[n].ret[2]
    /\ pc = "done" =>
         { calls[n].pix : n \in FitCalls }
             = (0..(Shape(cube0)[2] - 1)) \X (0..(Shape(cube0)[3] - 1))
    /\ pc = "exit" => FitCalls = {}

\* a run that returned, with a mask, after one fit call per pixel on a cube
\* whose rows and columns differ
C9_Witness ==
    /\ pc = "done"
    /\ mask # None
    /\ Cardinality(FitCalls) = DimY * DimX
    /\ TraceOf(cube0, 0, 1) # TraceOf(cube0, 1, 0)

\* the generator after n fit calls of the run
RngAfterCalls(n) ==
    IF kind = "FitBSpline" /\ Size(knotind) > 0 /\ chwid > 0
    THEN DrawInts(seed, -chwid, chwid, n * Size(knotind)).rng
    ELSE seed

\* what fit returns for pixel p of the cube as it was at the call, when it
\* is the n-th fit call (from 0) of the run
FitAsCall(p, n) ==
    LET r == Fit(kind, x, TraceOf(cube0, p[1], p[2]), MaskArg(mask, p[1], p[2]),
                 RngAfterCalls(n), imax, knotind, chwid)
    IN  << r.cont, r.resid >>

\* what the run has written for pixel p
PixelResult(p) == << TraceOf(cont, p[1], p[2]), TraceOf(line, p[1], p[2]) >>

\* the place of pixel p in the order of the code's loop
CodePos(p) ==
    CHOOSE n \in DOMAIN order :
        CodeOrder(Shape(cube0)[2], Shape(cube0)[3])[n] = p

\* C3 as stated: whatever the order of the visits, every pixel ends with
\* the continuum and line it gets when the pixels are visited in the order
\* of the code's loop.
C3_OrderFree ==
    pc = "done" =>
        \A n \in DOMAIN order :
            PixelResult(order[n]) = FitAsCall(order[n], CodePos(order[n]))

\* C3 as amended: the pixel visited n-th ends with what fit returns for its
\* trace and mask trace on the n-th draw of the random stream; with
\* fitMedFilter, which draws nothing, that is what it gets in any order.
C3_OrderByDraw ==
    pc = "done" =>
        \A n \in DOMAIN order :
            /\ PixelResult(order[n]) = FitAsCall(order[n], n)
            /\ kind = "fitMedFilter" =>
                 PixelResult(order[n]) = FitAsCall(order[n], CodePos(order[n]))

\* a FitBSpline run that returned, in another order than the code's, where
\* some pixel's result is not the one of the code's order
C3_Witness ==
    /\ pc = "done"
    /\ kind = "FitBSpline"
    /\ order # CodeOrder(Shape(cube0)[2], Shape(cube0)[3])
    /\ \E n \in DOMAIN order :
         /\ PixelResult(order[n]) = FitAsCall(order[n], n)
         /\ PixelResult(order[n]) # FitAsCall(order[n], CodePos(order[n]))

\* the axis neither rises strictly nor falls strictly
NonMonotonic(xx) ==
    /\ \E k \in DOMAIN xx : k + 1 \in DOMAIN xx /\ xx[k] >= xx[k + 1]
    /\ \E k \in DOMAIN xx : k + 1 \in DOMAIN xx /\ xx[k] <= xx[k + 1]

\* the two largest values of the axis are not neighbours
TopApart(xx) == Abs(Top2(xx)[1] - Top2(xx)[2]) # 1

\* C4 as stated: on an axis of at least 4 values that is not strictly
\* monotonic, prepare of either strategy never completes (it exits, or at
\* least raises), and no fit call follows.
C4_Gate ==
    (Size(x) >= 4 /\ NonMonotonic(x) /\ pc # "start") =>
        pc \in { "exit", "raised" } /\ FitCalls = {}

\* C4 as amended: the same, for the axes (of distinct values) whose two
\* largest values are not at neighbouring indices, such as 1, 2, 1.5, 3.
C4_GateOnLargest ==
    (Size(x) >= 4 /\ TopApart(x) /\ pc # "start") =>
        pc = "exit" /\ attrs = {} /\ FitCalls = {}

\* prepare has exited on the axis ordered like 1, 2, 1.5, 3
C4_Witness ==
    /\ pc = "exit"
    /\ Size(x) = 4
    /\ x[0] < x[2] /\ x[2] < x[1] /\ x[1] < x[3]
    /\ TopApart(x)
    /\ Len(calls) = 1

\* the length of the moving median fit takes of a trace of n channels
\* with the window w
MedianLength(n, w) ==
    Size(MovingMedian(Padded([ k \in 0..(n - 1) |-> Num(0) ], FloorDiv(w, 2)), w))

C10_Knots ==
    (kind = "FitBSpline" /\ "_knots" \in attrs /\ imax >= 3 /\ FitCalls # {}) =>
        /\ pc # "raised"
        /\ DOMAIN inds = DOMAIN knotind
        /\ \A t \in DOMAIN inds :
             /\ Abs(inds[t] - KnotInd(Size(x), imax)[t])
                    <= FloorDiv(FloorDiv(Size(x), imax), 8)
             /\ inds[t] \in 1..(Size(x) - 1)
             /\ t + 1 \in DOMAIN inds => inds[t] < inds[t + 1]

ClipRuns == pc \in { "built", "nameerror", "attributeerror", "dilate", "masked" }

TrueCells(m) == { c \in DOMAIN m : m[c] }

\* pixSigmaClip with dilation = 0 has returned the mask of the cube whose
\* threshold mask is the block of side b at offset o
BlockRun(o, b) ==
    /\ pc = "masked"
    /\ clip.cls = "pixSigmaClip"
    /\ clip.dilate = 0
    /\ data = BlockData(o, b)

\* C6 as stated: with dilation = 0 there are exactly two erosion passes and
\* no dilation pass; a threshold mask of one True element gives an
\* all-False result; one of a 3x3x3 block gives a result with a True
\* element, all of them inside the block.
C6_BlockSurvives ==
    \A b \in { 1, 3 } : \A o \in Offsets(b) :
        BlockRun(o, b) =>
            /\ ThresholdMask(clip.cls, clip.n, data) = BlockMask(o, b)
            /\ iter = << 0, 2 >>
            /\ b = 1 => TrueCells(cmask) = {}
            /\ b = 3 => /\ TrueCells(cmask) # {}
                        /\ TrueCells(cmask) \subseteq TrueCells(BlockMask(o, b))

\* the block touches a face of the cube along every axis
InCorner(o, b) == \A a \in 1..3 : o[a] = 0 \/ o[a] + b = Side

\* the cell of the block that lies in the corner of the cube
CornerCell(o) == [ a \in 1..3 |-> IF o[a] = 0 THEN 0 ELSE Side - 1 ]

\* C6 as amended: with dilation = 0 there are exactly two erosion passes
\* and no dilation pass; a threshold mask of one True element gives an
\* all-False result; one of a 3x3x3 block gives an all-False result too,
\* unless the block lies in a corner of the cube, where the corner cell
\* alone stays True.
C6_CornerSurvives ==
    \A b \in { 1, 3 } : \A o \in Offsets(b) :
        BlockRun(o, b) =>
            /\ ThresholdMask(clip.cls, clip.n, data) = BlockMask(o, b)
            /\ iter = << 0, 2 >>
            /\ b = 1 => TrueCells(cmask) = {}
            /\ b = 3 => TrueCells(cmask) =
                          IF InCorner(o, b) THEN { CornerCell(o) } ELSE {}

\* pixSigmaClip has returned, after two erosion passes, the mask of the
\* 3x3x3 block at the origin, of which the corner cell is left
C6_Witness ==
    /\ BlockRun(<< 0, 0, 0 >>, 3)
    /\ ThresholdMask(clip.cls, clip.n, data) = BlockMask(<< 0, 0, 0 >>, 3)
    /\ TrueCells(cmask) = { << 0, 0, 0 >> }
    /\ iter = << 0, 2 >>

\* the cell of channel 0 that holds the value of cell << j, i >> of
\* channel k in the cubes of ChannelCubes
TwinCell(k, j, i) ==
    << 0, ((4 * j + i + k) % 16) \div 4, ((4 * j + i + k) % 16) % 4 >>

\* C7 as stated: chanSigmaClip(n = 3) returns False on the whole of
\* channel 2, whose spread is ten times that of the others, and True
\* everywhere else.
C7_ChannelFlagged ==
    (pc = "masked" /\ clip.cls = "chanSigmaClip" /\ clip.n = 3) =>
        \A c \in DOMAIN cmask : cmask[c] = (c[1] # 2)

\* C7 as amended: the mask of a channel does not change with the scale of
\* the channel: channel 2 gets at each pixel what the same values get in a
\* channel of a tenth of the spread; with n = 3 no channel that holds a
\* value other than 0 is False at all its pixels.
C7_ScaleFree ==
    (pc = "masked" /\ clip.cls = "chanSigmaClip") =>
        /\ \A c \in DOMAIN cmask :
             cmask[c] = cmask[TwinCell(c[1], c[2], c[3])]
        /\ clip.n = 3 =>
             \A k \in 0..4 :
                 (\E c \in DOMAIN data : c[1] = k /\ data[c] # 0) =>
                 (\E c \in DOMAIN cmask : c[1] = k /\ cmask[c])

\* chanSigmaClip(n = 3) has returned a mask that is True on all of
\* channel 2, whose nonzero values are ten times those of channel 0
C7_Witness ==
    /\ pc = "masked"
    /\ clip.cls = "chanSigmaClip"
    /\ clip.n = 3
    /\ \A c \in DOMAIN cmask : c[1] = 2 => cmask[c]
    /\ \E c \in DOMAIN data : c[1] = 2 /\ data[c] = 10 * data[TwinCell(2, c[2], c[3])]
                              /\ data[c] # 0

====
